---- MODULE Spec2Model ----
(***************************************************************************)
(* Model of the mDNS responder: configuration validation (config.rs), the  *)
(* advertisement controller run / graceful_shutdown (mdns_service.rs) and  *)
(* the Windows service adapter run_service (windows_service.rs).           *)
(*                                                                         *)
(* Strings whose characters the code inspects are sequences of characters  *)
(* (one-character strings; "U+00E9" stands for the two-byte letter e-acute).*)
(* Option<T> is a sequence of length 0 (None) or 1 (Some).                 *)
(***************************************************************************)
EXTENDS Integers, Sequences, FiniteSets, TLC

VARIABLES
    vcfg,            \* validate harness: the configuration handed to validate
    vres,            \* validate harness: the result validate returned
    disk,            \* the file at the path given to save_to_file / from_file
    saved,           \* what save_to_file returned (Option)
    reloaded,        \* what from_file returned after the save (Option)
    adapter_query,   \* address selection: the result of get_adapters()
    socket_probe,    \* address selection: the behaviour of the UDP socket
    selected,        \* address selection: the value of the ip_addr expression (Option)
    normalized,      \* hostname normalization: the value of hostname_fqdn (Option)
    svc_pc,          \* run_service: position of the adapter thread
    status,          \* run_service: states reported to the service manager, in order
    handler_result,  \* outcome of the last control-handler invocation
    stops,           \* number of termination requests issued so far
    run_pc,          \* run: position of the controller thread
    shutdown_rx,     \* run: the Option<Receiver<()>> argument
    config_override, \* run: the Option<ServiceConfig> argument
    config,          \* run: the resolved configuration (Option)
    loaded,          \* run: the result of ServiceConfig::from_file (Option)
    ip_addr,         \* run: the address handed to ServiceInfo::new (Option)
    hostname_fqdn,   \* run: the normalized hostname (Option)
    registered,      \* discovery daemon: the registered record (Option)
    chan,            \* the mpsc channel created by the caller of run
    ctrlc,           \* the mpsc channel run creates for the Ctrl-C handler
    observed,        \* run: number of recv() calls that have returned
    consumed,        \* run: number of values those calls took from a channel
    sd_pc,           \* graceful_shutdown: position of the teardown thread
    shutdown_result, \* graceful_shutdown: the Mutex<Option<Result>> slot
    teardown_calls,  \* discovery daemon: number of shutdown() invocations
    elapsed,         \* graceful_shutdown: start.elapsed() in poll intervals
    run_result       \* what run returned (Option)

vars == <<vcfg, vres, disk, saved, reloaded, adapter_query, socket_probe, selected,
          normalized, svc_pc, status, handler_result, stops, run_pc, shutdown_rx,
          config_override, config, loaded, ip_addr, hostname_fqdn, registered,
          chan, ctrlc, observed, consumed, sd_pc, shutdown_result, teardown_calls,
          elapsed, run_result>>

file_vars == <<disk, saved, reloaded>>

advert_vars == <<adapter_query, socket_probe, selected, normalized>>

harness_vars == <<vcfg, vres, file_vars, advert_vars>>

lifecycle_vars == <<svc_pc, status, handler_result, stops, run_pc, shutdown_rx,
          config_override, config, loaded, ip_addr, hostname_fqdn, registered,
          chan, ctrlc, observed, consumed, sd_pc, shutdown_result, teardown_calls,
          elapsed, run_result>>

\* ------------------------------------------------------------------------
\* Bounds of the model
\* ------------------------------------------------------------------------
MaxStops == 2        \* termination requests (stop controls, sends, Ctrl-C) per run
MaxSlack == 1        \* extra poll intervals one thread::sleep may overrun by

\* ------------------------------------------------------------------------
\* Option and Result
\* ------------------------------------------------------------------------
None == <<>>
Some(x) == <<x>>
IsSome(o) == Len(o) = 1
Unwrap(o) == o[1]

NoIndex == 0 - 1
Ok == [tag |-> "Ok"]
Err(kind, msg) == [tag |-> "Err", kind |-> kind, msg |-> msg, index |-> NoIndex]
ErrAt(kind, msg, i) == [tag |-> "Err", kind |-> kind, msg |-> msg, index |-> i]
OkOf(v) == [tag |-> "Ok", val |-> v]
IsOk(r) == r.tag = "Ok"

\* ------------------------------------------------------------------------
\* Characters and strings
\* ------------------------------------------------------------------------
AsciiLetters ==
    {"a", "b", "c", "d", "e", "f", "g", "h", "i", "j", "k", "l", "m",
     "n", "o", "p", "q", "r", "s", "t", "u", "v", "w", "x", "y", "z",
     "A", "B", "C", "D", "E", "F", "G", "H", "I", "J", "K", "L", "M",
     "N", "O", "P", "Q", "R", "S", "T", "U", "V", "W", "X", "Y", "Z"}
AsciiDigits == {"0", "1", "2", "3", "4", "5", "6", "7", "8", "9"}
WideLetters == {"U+00E9"}

\* char::is_alphanumeric: Unicode Alphabetic or Numeric, not only ASCII
IsAlphanumeric(c) == c \in AsciiLetters \cup AsciiDigits \cup WideLetters

\* bytes of the UTF-8 encoding of one character
Utf8Len(c) == IF c \in WideLetters THEN 2 ELSE 1

RECURSIVE StrLen(_)
\* str::len: the length in bytes
StrLen(s) == IF s = <<>> THEN 0 ELSE Utf8Len(Head(s)) + StrLen(Tail(s))

EndsWith(s, suffix) ==
    /\ Len(s) >= Len(suffix)
    /\ SubSeq(s, Len(s) - Len(suffix) + 1, Len(s)) = suffix

StartsWithChar(s, c) == Len(s) > 0 /\ s[1] = c
EndsWithChar(s, c) == Len(s) > 0 /\ s[Len(s)] = c

Rep(c, n) == [i \in 1..n |-> c]

LocalDot == <<".", "l", "o", "c", "a", "l", ".">>
Local == <<".", "l", "o", "c", "a", "l">>

\* ------------------------------------------------------------------------
\* config.rs
\* ------------------------------------------------------------------------
MaxInstanceLen == 63

SmbService == <<"_", "s", "m", "b", ".", "_", "t", "c", "p", ".", "l", "o", "c", "a", "l", ".">>
WindowsShare == <<"W", "i", "n", "d", "o", "w", "s", "-", "S", "h", "a", "r", "e">>
WindowsPcLocal == <<"w", "i", "n", "d", "o", "w", "s", "-", "p", "c", ".", "l", "o", "c", "a", "l">>
Public == <<"P", "u", "b", "l", "i", "c">>
PublicPath == <<"C", ":", "\\", "U", "s", "e", "r", "s", "\\", "P", "u", "b", "l", "i", "c",
                "\\", "D", "o", "c", "u", "m", "e", "n", "t", "s">>
DefaultPort == 445

ShareConfig(name, path, comment) == [name |-> name, path |-> path, comment |-> comment]

\* impl Default for ServiceConfig
Default ==
    [service_name  |-> SmbService,
     instance_name |-> WindowsShare,
     port          |-> DefaultPort,
     hostname      |-> WindowsPcLocal,
     workgroup     |-> "WORKGROUP",
     description   |-> "Windows SMB Share via mDNS",
     shares        |-> <<ShareConfig(Public, PublicPath, "Public shared folder")>>,
     bind_address  |-> None]

RECURSIVE ValidateShares(_, _)
\* the loop over self.shares.iter().enumerate(), from index i (1-based here,
\* reported 0-based as enumerate() does)
ValidateShares(shares, i) ==
    IF i > Len(shares) THEN Ok
    ELSE IF shares[i].name = <<>>
         THEN ErrAt("ConfigValidation", "share: name cannot be empty", i - 1)
    ELSE IF shares[i].path = <<>>
         THEN ErrAt("ConfigValidation", "share: path cannot be empty", i - 1)
    ELSE ValidateShares(shares, i + 1)

\* ServiceConfig::validate
Validate(c) ==
    IF ~EndsWith(c.service_name, LocalDot)
        THEN Err("ConfigValidation", "service_name must end with '.local.'")
    ELSE IF c.instance_name = <<>>
        THEN Err("ConfigValidation", "instance_name cannot be empty")
    ELSE IF StrLen(c.instance_name) > MaxInstanceLen
        THEN Err("ConfigValidation", "instance_name exceeds 63 characters")
    ELSE IF c.port = 0
        THEN Err("ConfigValidation", "port cannot be 0")
    ELSE IF c.hostname = <<>>
        THEN Err("ConfigValidation", "hostname cannot be empty")
    ELSE IF \/ ~(\A i \in 1..Len(c.hostname) :
                    IsAlphanumeric(c.hostname[i]) \/ c.hostname[i] = "-")
            \/ StartsWithChar(c.hostname, "-")
            \/ EndsWithChar(c.hostname, "-")
        THEN Err("ConfigValidation",
                 "hostname must contain only alphanumeric characters and hyphens")
    ELSE IF c.shares = <<>>
        THEN Err("ConfigValidation", "at least one share must be configured")
    ELSE ValidateShares(c.shares, 1)

\* ---- the persisted file -------------------------------------------------
RequiredFields == {"service_name", "instance_name", "port", "hostname",
                   "workgroup", "description", "shares"}

\* serde_json::to_string_pretty(self): bind_address is skipped when None
Serialize(c) ==
    IF IsSome(c.bind_address)
    THEN [f \in RequiredFields \cup {"bind_address"} |->
             IF f = "bind_address" THEN Unwrap(c.bind_address) ELSE c[f]]
    ELSE [f \in RequiredFields |-> c[f]]

\* Deserialize treating bind_address as a required field
DeserializeRequiresAll(content) ==
    IF content.kind # "object" THEN Err("Json", "expected value")
    ELSE IF ~(RequiredFields \cup {"bind_address"} \subseteq DOMAIN content.fields)
         THEN Err("Json", "missing field")
    ELSE OkOf([f \in RequiredFields \cup {"bind_address"} |->
                 IF f = "bind_address" THEN Some(content.fields["bind_address"])
                 ELSE content.fields[f]])

\* serde_json::from_str::<ServiceConfig>: a missing required field is an
\* error, a missing Option field is None
Deserialize(content) ==
    IF content.kind # "object" THEN Err("Json", "expected value")
    ELSE IF ~(RequiredFields \subseteq DOMAIN content.fields)
         THEN Err("Json", "missing field")
    ELSE OkOf([f \in RequiredFields \cup {"bind_address"} |->
                 IF f = "bind_address"
                 THEN IF "bind_address" \in DOMAIN content.fields
                      THEN Some(content.fields["bind_address"]) ELSE None
                 ELSE content.fields[f]])

\* ServiceConfig::from_file
FromFile(file) ==
    IF file.kind = "missing" THEN Err("Io", "read_to_string failed")
    ELSE LET parsed == Deserialize(file) IN
         IF ~IsOk(parsed) THEN parsed
         ELSE IF ~IsOk(Validate(parsed.val)) THEN Validate(parsed.val)
         ELSE OkOf(parsed.val)

\* ------------------------------------------------------------------------
\* mdns_service.rs: address selection
\* ------------------------------------------------------------------------
SHUTDOWN_TIMEOUT_SECS == 5
PollIntervalMs == 100

Contains(s, sub) ==
    \E k \in 0..(Len(s) - Len(sub)) : SubSeq(s, k + 1, k + Len(sub)) = sub

Virtual == <<"V", "i", "r", "t", "u", "a", "l">>
VPN == <<"V", "P", "N">>
HyperV == <<"H", "y", "p", "e", "r", "-", "V">>
Bluetooth == <<"B", "l", "u", "e", "t", "o", "o", "t", "h">>

DigitChar(d) ==
    CASE d = 0 -> "0" [] d = 1 -> "1" [] d = 2 -> "2" [] d = 3 -> "3" [] d = 4 -> "4"
      [] d = 5 -> "5" [] d = 6 -> "6" [] d = 7 -> "7" [] d = 8 -> "8" [] d = 9 -> "9"

\* Display of one octet: decimal, no leading zeros
DecStr(n) ==
    IF n >= 100 THEN <<DigitChar(n \div 100), DigitChar((n \div 10) % 10), DigitChar(n % 10)>>
    ELSE IF n >= 10 THEN <<DigitChar(n \div 10), DigitChar(n % 10)>>
    ELSE <<DigitChar(n)>>

\* Ipv4Addr::to_string
Ipv4ToString(o) ==
    DecStr(o[1]) \o <<".">> \o DecStr(o[2]) \o <<".">> \o DecStr(o[3]) \o <<".">> \o DecStr(o[4])

V4(a, b, c, d) == [v |-> 4, octets |-> <<a, b, c, d>>]
V6 == [v |-> 6, octets |-> <<>>]

\* IsPrivate taking every 172.x.x.x address for private
IsPrivateAny172(o) ==
    \/ o[1] = 10
    \/ o[1] = 172
    \/ o[1] = 192 /\ o[2] = 168

\* the match on octets[0]
IsPrivate(o) ==
    \/ o[1] = 10
    \/ o[1] = 172 /\ o[2] >= 16 /\ o[2] <= 31
    \/ o[1] = 192 /\ o[2] = 168

SkippedAdapter(a) ==
    \/ Contains(a.description, Virtual)
    \/ Contains(a.description, VPN)
    \/ Contains(a.description, HyperV)
    \/ Contains(a.description, Bluetooth)
    \/ a.ip_addresses = <<>>

RECURSIVE FirstPrivate(_, _)
\* the inner loop over adapter.ip_addresses(), from position j
FirstPrivate(ips, j) ==
    IF j > Len(ips) THEN None
    ELSE IF ips[j].v = 4 /\ IsPrivate(ips[j].octets) THEN Some(Ipv4ToString(ips[j].octets))
    ELSE FirstPrivate(ips, j + 1)

RECURSIVE ScanAdapters(_, _)
\* the outer loop over the adapters, from position i
ScanAdapters(adapters, i) ==
    IF i > Len(adapters) THEN None
    ELSE IF SkippedAdapter(adapters[i]) THEN ScanAdapters(adapters, i + 1)
    ELSE IF IsSome(FirstPrivate(adapters[i].ip_addresses, 1))
         THEN FirstPrivate(adapters[i].ip_addresses, 1)
    ELSE ScanAdapters(adapters, i + 1)

\* the UDP socket fallback: bind, connect, local_addr
SocketProbe(probe) ==
    IF probe.step # "ok" THEN Err("Io", probe.step)
    ELSE OkOf(Ipv4ToString(probe.local))

\* get_local_ip; enumerated is the result of get_adapters()
GetLocalIp(enumerated, probe) ==
    IF ~IsOk(enumerated) THEN Err("IpConfig", "get_adapters failed")
    ELSE LET found == ScanAdapters(enumerated.val, 1) IN
         IF IsSome(found) THEN OkOf(Unwrap(found))
         ELSE SocketProbe(probe)

\* NormalizeHostname leaving a name that ends with ".local" as it is
NormalizeHostnameNoDot(h) ==
    IF EndsWith(h, LocalDot) THEN h
    ELSE IF EndsWith(h, Local) THEN h
    ELSE h \o LocalDot

\* the hostname_fqdn expression of run
NormalizeHostname(h) ==
    IF EndsWith(h, LocalDot) THEN h
    ELSE IF EndsWith(h, Local) THEN h \o <<".">>
    ELSE h \o LocalDot

\* s.path.replace('\\', "/")
ReplaceBackslash(path) == [i \in 1..Len(path) |-> IF path[i] = "\\" THEN "/" ELSE path[i]]

RECURSIVE JoinComma(_)
\* share_paths.join(",")
JoinComma(paths) ==
    IF paths = <<>> THEN <<>>
    ELSE IF Len(paths) = 1 THEN paths[1]
    ELSE paths[1] \o <<",">> \o JoinComma(Tail(paths))

\* the txt_records map built by run
TxtRecords(c) ==
    [vers |-> "3.0", nt |-> "hardware", flags |-> "1",
     workgroup |-> c.workgroup, description |-> c.description,
     path |-> JoinComma([i \in 1..Len(c.shares) |-> ReplaceBackslash(c.shares[i].path)])]

\* ------------------------------------------------------------------------
\* Inputs of the lifecycle model
\* ------------------------------------------------------------------------
Host == <<"h", "o", "s", "t">>
TestService == <<"_", "t", "e", "s", "t", ".", "_", "t", "c", "p", ".", "l", "o", "c", "a", "l", ".">>
TestInstance == <<"T", "e", "s", "t", "-", "I", "n", "s", "t", "a", "n", "c", "e", "-", "1">>
BindAddr == <<"1", "0", ".", "0", ".", "0", ".", "5">>

\* the configuration built by tests::test_mdns_service (lib.rs)
TestConfig == [Default EXCEPT !.instance_name = TestInstance, !.service_name = TestService]
HostConfig == [Default EXCEPT !.hostname = Host]
BindConfig == [HostConfig EXCEPT !.bind_address = Some(BindAddr)]
ZeroPortConfig == [HostConfig EXCEPT !.port = 0]

OverrideConfigs == {TestConfig, HostConfig, BindConfig, ZeroPortConfig}

FileStates ==
    {[kind |-> "missing"],
     [kind |-> "garbage"],
     [kind |-> "object", fields |-> [service_name |-> SmbService, port |-> DefaultPort]],
     [kind |-> "object", fields |-> Serialize(HostConfig)],
     [kind |-> "object", fields |-> Serialize(BindConfig)],
     [kind |-> "object", fields |-> Serialize(ZeroPortConfig)]}

Ethernet == <<"E", "t", "h", "e", "r", "n", "e", "t">>
HyperVSwitch == <<"H", "y", "p", "e", "r", "-", "V", " ", "S", "w", "i", "t", "c", "h">>
Adapter(desc, ips) == [description |-> desc, ip_addresses |-> ips]

AdapterStates ==
    {Err("IpConfig", "get_adapters failed"),
     OkOf(<<>>),
     OkOf(<<Adapter(HyperVSwitch, <<V4(10, 0, 0, 1)>>),
            Adapter(Ethernet, <<V4(8, 8, 8, 8), V4(192, 168, 1, 50)>>)>>),
     OkOf(<<Adapter(Ethernet, <<V6, V4(8, 8, 8, 8)>>)>>)}

ProbeStates ==
    {[step |-> "bind failed"], [step |-> "connect failed"],
     [step |-> "ok", local |-> <<192, 168, 1, 7>>]}

\* ------------------------------------------------------------------------
\* Initial states
\* ------------------------------------------------------------------------
NoChannel == [queue |-> 0, rx |-> "none", senders |-> 0]
NewChannel == [queue |-> 0, rx |-> "alive", senders |-> 1]

InitCommon ==
    /\ status = <<>>
    /\ handler_result = "none"
    /\ stops = 0
    /\ config = None
    /\ loaded = None
    /\ ip_addr = None
    /\ hostname_fqdn = None
    /\ registered = None
    /\ ctrlc = [installed |-> FALSE, queue |-> 0, rx |-> "none"]
    /\ observed = 0
    /\ consumed = 0
    /\ sd_pc = "none"
    /\ shutdown_result = None
    /\ teardown_calls = 0
    /\ elapsed = 0
    /\ run_result = None

\* the process entered through the service dispatcher: service_main -> run_service
InitService ==
    /\ svc_pc = "register_handler"
    /\ run_pc = "not_started"
    /\ shutdown_rx = "Some"
    /\ config_override = None
    /\ chan = NewChannel

\* run called directly: main.rs "run" (None, None), or a caller such as
\* tests::test_mdns_service holding the sending end of the channel
InitDirect ==
    /\ svc_pc = "none"
    /\ run_pc = "config"
    /\ shutdown_rx \in {"Some", "None"}
    /\ config_override \in {None} \cup {Some(c) : c \in OverrideConfigs}
    /\ chan = IF shutdown_rx = "Some" THEN NewChannel ELSE NoChannel

\* the file and address-selection harnesses at rest
InitIdleFile ==
    /\ disk = [kind |-> "missing"]
    /\ saved = None
    /\ reloaded = None

InitIdleAdvert ==
    /\ adapter_query = OkOf(<<>>)
    /\ socket_probe = [step |-> "bind failed"]
    /\ selected = None
    /\ normalized = None

Init ==
    /\ vcfg = Default
    /\ vres = None
    /\ InitIdleFile
    /\ InitIdleAdvert
    /\ InitCommon
    /\ (InitService \/ InitDirect)

\* ------------------------------------------------------------------------
\* mdns_service.rs: run
\* ------------------------------------------------------------------------
Panic == [tag |-> "Panic"]

\* a Receiver goes out of scope
DropRx(ch) == [ch EXCEPT !.rx = IF @ = "alive" THEN "dropped" ELSE @]

\* run returns r (or unwinds); its shutdown_rx argument is dropped with it
Return(r) ==
    /\ run_pc' = "returned"
    /\ run_result' = Some(r)
    /\ chan' = DropRx(chan)

\* ResolveConfig without the or_else: the load error reaches the `?`
ResolveConfigPropagates(override, file) ==
    IF IsSome(override) THEN OkOf(Unwrap(override))
    ELSE FromFile(file)

\* the `let config = ...` expression of run, file being the state of config_path
ResolveConfig(override, file) ==
    IF IsSome(override) THEN OkOf(Unwrap(override))
    ELSE IF IsOk(FromFile(file)) THEN FromFile(file)
    ELSE OkOf(Default)

RunResolveConfig ==
    /\ run_pc = "config"
    /\ \E file \in FileStates :
         LET r == ResolveConfig(config_override, file) IN
           /\ loaded' = IF IsSome(config_override) THEN None ELSE Some(FromFile(file))
           /\ IF IsOk(r)
              THEN /\ config' = Some(r.val)
                   /\ run_pc' = "address"
                   /\ UNCHANGED <<run_result, chan>>
              ELSE /\ Return(r)
                   /\ UNCHANGED config
    /\ UNCHANGED <<harness_vars, svc_pc, status, handler_result, stops, shutdown_rx,
                   config_override, ip_addr, hostname_fqdn, registered, ctrlc, observed,
                   consumed, sd_pc, shutdown_result, teardown_calls, elapsed>>

\* SelectAddress detecting first and using bind_address only as a fallback
SelectAddressDetectsFirst(c, enumerated, probe) ==
    IF IsOk(GetLocalIp(enumerated, probe)) \/ ~IsSome(c.bind_address)
    THEN GetLocalIp(enumerated, probe)
    ELSE OkOf(Unwrap(c.bind_address))

\* the `let ip_addr = ...` expression of run
SelectAddress(c, enumerated, probe) ==
    IF IsSome(c.bind_address) THEN OkOf(Unwrap(c.bind_address))
    ELSE GetLocalIp(enumerated, probe)

RunSelectAddress ==
    /\ run_pc = "address"
    /\ \E enumerated \in AdapterStates, probe \in ProbeStates :
         LET r == SelectAddress(Unwrap(config), enumerated, probe) IN
           IF IsOk(r)
           THEN /\ ip_addr' = Some(r.val)
                /\ run_pc' = "daemon"
                /\ UNCHANGED <<run_result, chan>>
           ELSE /\ Return(r)
                /\ UNCHANGED ip_addr
    /\ UNCHANGED <<harness_vars, svc_pc, status, handler_result, stops, shutdown_rx,
                   config_override, config, loaded, hostname_fqdn, registered, ctrlc,
                   observed, consumed, sd_pc, shutdown_result, teardown_calls, elapsed>>

\* ServiceDaemon::new()
RunNewDaemon ==
    /\ run_pc = "daemon"
    /\ \E ok \in BOOLEAN :
         IF ok
         THEN run_pc' = "service_info" /\ UNCHANGED <<run_result, chan>>
         ELSE Return(Err("Service", "ServiceDaemon::new failed"))
    /\ UNCHANGED <<harness_vars, svc_pc, status, handler_result, stops, shutdown_rx,
                   config_override, config, loaded, ip_addr, hostname_fqdn, registered,
                   ctrlc, observed, consumed, sd_pc, shutdown_result, teardown_calls,
                   elapsed>>

\* txt records, hostname normalization and ServiceInfo::new
RunServiceInfo ==
    /\ run_pc = "service_info"
    /\ hostname_fqdn' = Some(NormalizeHostname(Unwrap(config).hostname))
    /\ \E ok \in BOOLEAN :
         IF ok
         THEN run_pc' = "register" /\ UNCHANGED <<run_result, chan>>
         ELSE Return(Err("Service", "ServiceInfo::new failed"))
    /\ UNCHANGED <<harness_vars, svc_pc, status, handler_result, stops, shutdown_rx,
                   config_override, config, loaded, ip_addr, registered, ctrlc, observed,
                   consumed, sd_pc, shutdown_result, teardown_calls, elapsed>>

\* the record handed to daemon.register
ServiceInfo(c, fqdn, ip) ==
    [service_name |-> c.service_name, instance_name |-> c.instance_name,
     hostname |-> fqdn, ip |-> ip, port |-> c.port, txt |-> TxtRecords(c), config |-> c]

\* RunRegister giving up when a termination value is already queued
RunRegisterCancellable ==
    /\ run_pc = "register"
    /\ IF chan.queue > 0
       THEN /\ run_pc' = "graceful_shutdown"
            /\ UNCHANGED <<registered, run_result, chan>>
       ELSE \E outcome \in {"ok", "err"} :
              IF outcome = "ok"
              THEN /\ registered' = Some(ServiceInfo(Unwrap(config), Unwrap(hostname_fqdn),
                                                     Unwrap(ip_addr)))
                   /\ run_pc' = "wait"
                   /\ UNCHANGED <<run_result, chan>>
              ELSE /\ Return(Err("Service", "register failed"))
                   /\ UNCHANGED registered
    /\ UNCHANGED <<harness_vars, svc_pc, status, handler_result, stops, shutdown_rx,
                   config_override, config, loaded, ip_addr, hostname_fqdn, ctrlc,
                   observed, consumed, sd_pc, shutdown_result, teardown_calls, elapsed>>

\* daemon.register(service_info)
RunRegister ==
    /\ run_pc = "register"
    /\ \E outcome \in {"ok", "err", "panic"} :
         CASE outcome = "ok" ->
                /\ registered' = Some(ServiceInfo(Unwrap(config), Unwrap(hostname_fqdn),
                                                  Unwrap(ip_addr)))
                /\ run_pc' = "wait"
                /\ UNCHANGED <<run_result, chan>>
           [] outcome = "err" ->
                /\ Return(Err("Service", "register failed"))
                /\ UNCHANGED registered
           [] outcome = "panic" ->
                /\ Return(Panic)
                /\ UNCHANGED registered
    /\ UNCHANGED <<harness_vars, svc_pc, status, handler_result, stops, shutdown_rx,
                   config_override, config, loaded, ip_addr, hostname_fqdn, ctrlc,
                   observed, consumed, sd_pc, shutdown_result, teardown_calls, elapsed>>

\* RunWaitExternal returning only when a value arrives: a closed channel
\* leaves it blocked
RunWaitExternalNeedsValue ==
    /\ run_pc = "wait"
    /\ shutdown_rx = "Some"
    /\ chan.queue > 0
    /\ chan' = [chan EXCEPT !.queue = @ - 1, !.rx = "dropped"]
    /\ consumed' = consumed + 1
    /\ observed' = observed + 1
    /\ run_pc' = "graceful_shutdown"
    /\ UNCHANGED <<harness_vars, svc_pc, status, handler_result, stops, shutdown_rx,
                   config_override, config, loaded, ip_addr, hostname_fqdn, registered,
                   ctrlc, sd_pc, shutdown_result, teardown_calls, elapsed, run_result>>

\* RunWaitExternal draining the channel: it keeps the receiver and waits
\* again while another value is queued
RunWaitExternalDrains ==
    /\ run_pc = "wait"
    /\ shutdown_rx = "Some"
    /\ chan.queue > 0 \/ chan.senders = 0
    /\ chan' = [chan EXCEPT !.queue = IF @ > 0 THEN @ - 1 ELSE @,
                            !.rx = IF chan.queue > 1 THEN "alive" ELSE "dropped"]
    /\ consumed' = IF chan.queue > 0 THEN consumed + 1 ELSE consumed
    /\ observed' = observed + 1
    /\ run_pc' = IF chan.queue > 1 THEN "wait" ELSE "graceful_shutdown"
    /\ UNCHANGED <<harness_vars, svc_pc, status, handler_result, stops, shutdown_rx,
                   config_override, config, loaded, ip_addr, hostname_fqdn, registered,
                   ctrlc, sd_pc, shutdown_result, teardown_calls, elapsed, run_result>>

\* shutdown_rx.recv().ok() on the supplied channel; the receiver is dropped
\* at the end of the if-let block
RunWaitExternal ==
    /\ run_pc = "wait"
    /\ shutdown_rx = "Some"
    /\ chan.queue > 0 \/ chan.senders = 0
    /\ chan' = [chan EXCEPT !.queue = IF @ > 0 THEN @ - 1 ELSE @, !.rx = "dropped"]
    /\ consumed' = IF chan.queue > 0 THEN consumed + 1 ELSE consumed
    /\ observed' = observed + 1
    /\ run_pc' = "graceful_shutdown"
    /\ UNCHANGED <<harness_vars, svc_pc, status, handler_result, stops, shutdown_rx,
                   config_override, config, loaded, ip_addr, hostname_fqdn, registered,
                   ctrlc, sd_pc, shutdown_result, teardown_calls, elapsed, run_result>>

\* RunSetHandler installing the Ctrl-C handler whether or not a channel was
\* supplied
RunSetHandlerAlways ==
    /\ run_pc = "wait"
    /\ \E ok \in BOOLEAN :
         IF ok
         THEN /\ ctrlc' = [installed |-> TRUE, queue |-> 0, rx |-> "alive"]
              /\ run_pc' = "wait_ctrlc"
              /\ UNCHANGED <<run_result, chan>>
         ELSE /\ Return(Err("Thread", "set_handler failed"))
              /\ UNCHANGED ctrlc
    /\ UNCHANGED <<harness_vars, svc_pc, status, handler_result, stops, shutdown_rx,
                   config_override, config, loaded, ip_addr, hostname_fqdn, registered,
                   observed, consumed, sd_pc, shutdown_result, teardown_calls, elapsed>>

\* mpsc::channel() and ctrlc::set_handler
RunSetHandler ==
    /\ run_pc = "wait"
    /\ shutdown_rx = "None"
    /\ \E ok \in BOOLEAN :
         IF ok
         THEN /\ ctrlc' = [installed |-> TRUE, queue |-> 0, rx |-> "alive"]
              /\ run_pc' = "wait_ctrlc"
              /\ UNCHANGED <<run_result, chan>>
         ELSE /\ Return(Err("Thread", "set_handler failed"))
              /\ UNCHANGED ctrlc
    /\ UNCHANGED <<harness_vars, svc_pc, status, handler_result, stops, shutdown_rx,
                   config_override, config, loaded, ip_addr, hostname_fqdn, registered,
                   observed, consumed, sd_pc, shutdown_result, teardown_calls, elapsed>>

\* rx.recv().ok() on the internal channel; the handler keeps the sender alive
RunWaitCtrlc ==
    /\ run_pc = "wait_ctrlc"
    /\ ctrlc.queue > 0
    /\ ctrlc' = [ctrlc EXCEPT !.queue = @ - 1, !.rx = "dropped"]
    /\ consumed' = consumed + 1
    /\ observed' = observed + 1
    /\ run_pc' = "graceful_shutdown"
    /\ UNCHANGED <<harness_vars, svc_pc, status, handler_result, stops, shutdown_rx,
                   config_override, config, loaded, ip_addr, hostname_fqdn, registered,
                   chan, sd_pc, shutdown_result, teardown_calls, elapsed, run_result>>

\* ------------------------------------------------------------------------
\* mdns_service.rs: graceful_shutdown
\* ------------------------------------------------------------------------
TimeoutTicks == (SHUTDOWN_TIMEOUT_SECS * 1000) \div PollIntervalMs

\* the model's clock saturates here; the loop never sleeps past
\* TimeoutTicks, so the clock of the code never reaches it
ClockCap == TimeoutTicks + 2 * (1 + MaxSlack)
Min(a, b) == IF a < b THEN a ELSE b

\* thread::spawn of the teardown closure, Instant::now()
GracefulSpawn ==
    /\ run_pc = "graceful_shutdown"
    /\ sd_pc' = "spawned"
    /\ shutdown_result' = None
    /\ elapsed' = 0
    /\ run_pc' = "poll"
    /\ UNCHANGED <<harness_vars, svc_pc, status, handler_result, stops, shutdown_rx,
                   config_override, config, loaded, ip_addr, hostname_fqdn, registered,
                   chan, ctrlc, observed, consumed, teardown_calls, run_result>>

\* PollOutcome honouring the bound only once the teardown thread has ended
PollOutcomeWaits(finished, result, e) ==
    IF finished /\ IsSome(result) THEN Some(Ok)
    ELSE IF finished /\ e > TimeoutTicks THEN Some(Ok)
    ELSE None

\* PollOutcome handing the teardown error to the caller
PollOutcomePropagates(finished, result, e) ==
    IF finished /\ IsSome(result) THEN Some(Unwrap(result))
    ELSE IF e > TimeoutTicks THEN Some(Ok)
    ELSE None

\* one pass through the body of the loop up to the sleep: Some(r) when it
\* returns r, None when it goes on to sleep
PollOutcome(finished, result, e) ==
    IF finished /\ IsSome(result) /\ IsOk(Unwrap(result)) THEN Some(Ok)
    ELSE IF finished /\ IsSome(result) /\ ~IsOk(Unwrap(result)) THEN Some(Ok)
    ELSE IF e > TimeoutTicks THEN Some(Ok)
    ELSE None

Poll ==
    /\ run_pc = "poll"
    /\ LET out == PollOutcome(sd_pc = "finished", shutdown_result, elapsed) IN
         IF IsSome(out)
         THEN Return(Unwrap(out))
         ELSE run_pc' = "sleep" /\ UNCHANGED <<run_result, chan>>
    /\ UNCHANGED <<harness_vars, svc_pc, status, handler_result, stops, shutdown_rx,
                   config_override, config, loaded, ip_addr, hostname_fqdn, registered,
                   ctrlc, observed, consumed, sd_pc, shutdown_result, teardown_calls,
                   elapsed>>

\* thread::sleep(100ms): at least one poll interval passes
Sleep ==
    /\ run_pc = "sleep"
    /\ \E slack \in 0..MaxSlack : elapsed' = Min(elapsed + 1 + slack, ClockCap)
    /\ run_pc' = "poll"
    /\ UNCHANGED <<harness_vars, svc_pc, status, handler_result, stops, shutdown_rx,
                   config_override, config, loaded, ip_addr, hostname_fqdn, registered,
                   chan, ctrlc, observed, consumed, sd_pc, shutdown_result,
                   teardown_calls, run_result>>

\* the teardown closure: daemon.shutdown() is invoked
TeardownCall ==
    /\ sd_pc = "spawned"
    /\ sd_pc' = "in_shutdown"
    /\ teardown_calls' = teardown_calls + 1
    /\ UNCHANGED <<harness_vars, svc_pc, status, handler_result, stops, run_pc,
                   shutdown_rx, config_override, config, loaded, ip_addr, hostname_fqdn,
                   registered, chan, ctrlc, observed, consumed, shutdown_result, elapsed,
                   run_result>>

\* TeardownStore calling daemon.shutdown() again after an error
TeardownStoreRetries ==
    /\ sd_pc = "in_shutdown"
    /\ \E r \in {Ok, Err("Service", "shutdown failed")} :
         /\ shutdown_result' = IF IsOk(r) THEN Some(r) ELSE shutdown_result
         /\ sd_pc' = IF IsOk(r) THEN "finished" ELSE "spawned"
    /\ UNCHANGED <<harness_vars, svc_pc, status, handler_result, stops, run_pc,
                   shutdown_rx, config_override, config, loaded, ip_addr, hostname_fqdn,
                   registered, chan, ctrlc, observed, consumed, teardown_calls, elapsed,
                   run_result>>

\* daemon.shutdown() returns; the result is stored under the lock and the
\* closure ends
TeardownStore ==
    /\ sd_pc = "in_shutdown"
    /\ \E r \in {Ok, Err("Service", "shutdown failed")} : shutdown_result' = Some(r)
    /\ sd_pc' = "finished"
    /\ UNCHANGED <<harness_vars, svc_pc, status, handler_result, stops, run_pc,
                   shutdown_rx, config_override, config, loaded, ip_addr, hostname_fqdn,
                   registered, chan, ctrlc, observed, consumed, teardown_calls, elapsed,
                   run_result>>

\* daemon.shutdown() unwinds: the thread ends and the slot stays None
TeardownPanic ==
    /\ sd_pc = "in_shutdown"
    /\ sd_pc' = "finished"
    /\ UNCHANGED <<harness_vars, svc_pc, status, handler_result, stops, run_pc,
                   shutdown_rx, config_override, config, loaded, ip_addr, hostname_fqdn,
                   registered, chan, ctrlc, observed, consumed, shutdown_result,
                   teardown_calls, elapsed, run_result>>

\* ------------------------------------------------------------------------
\* windows_service.rs: run_service and the control handler
\* ------------------------------------------------------------------------
Report(state, ok) == [state |-> state, ok |-> ok]

RECURSIVE CurrentState(_)
\* the state the service manager holds: the last report that succeeded
CurrentState(log) ==
    IF log = <<>> THEN "None"
    ELSE IF log[Len(log)].ok THEN log[Len(log)].state
    ELSE CurrentState(SubSeq(log, 1, Len(log) - 1))

\* mpsc::channel() and service_control_handler::register
SvcRegisterHandler ==
    /\ svc_pc = "register_handler"
    /\ \E ok \in BOOLEAN :
         IF ok
         THEN svc_pc' = "start_pending" /\ UNCHANGED chan
         ELSE svc_pc' = "returned_err" /\ chan' = [DropRx(chan) EXCEPT !.senders = 0]
    /\ UNCHANGED <<harness_vars, status, handler_result, stops, run_pc, shutdown_rx,
                   config_override, config, loaded, ip_addr, hostname_fqdn, registered,
                   ctrlc, observed, consumed, sd_pc, shutdown_result, teardown_calls,
                   elapsed, run_result>>

\* set_service_status(StartPending)?
SvcStartPending ==
    /\ svc_pc = "start_pending"
    /\ \E ok \in BOOLEAN :
         /\ status' = Append(status, Report("StartPending", ok))
         /\ IF ok
            THEN svc_pc' = "spawn" /\ UNCHANGED chan
            ELSE svc_pc' = "returned_err" /\ chan' = DropRx(chan)
    /\ UNCHANGED <<harness_vars, handler_result, stops, run_pc, shutdown_rx,
                   config_override, config, loaded, ip_addr, hostname_fqdn, registered,
                   ctrlc, observed, consumed, sd_pc, shutdown_result, teardown_calls,
                   elapsed, run_result>>

\* thread::spawn(move || mdns_service::run(Some(shutdown_rx), None))
SvcSpawn ==
    /\ svc_pc = "spawn"
    /\ svc_pc' = "running"
    /\ run_pc' = "config"
    /\ UNCHANGED <<harness_vars, status, handler_result, stops, shutdown_rx,
                   config_override, config, loaded, ip_addr, hostname_fqdn, registered,
                   chan, ctrlc, observed, consumed, sd_pc, shutdown_result,
                   teardown_calls, elapsed, run_result>>

\* set_service_status(Running)?
SvcRunning ==
    /\ svc_pc = "running"
    /\ \E ok \in BOOLEAN :
         /\ status' = Append(status, Report("Running", ok))
         /\ svc_pc' = IF ok THEN "join" ELSE "returned_err"
    /\ UNCHANGED <<harness_vars, handler_result, stops, run_pc, shutdown_rx,
                   config_override, config, loaded, ip_addr, hostname_fqdn, registered,
                   chan, ctrlc, observed, consumed, sd_pc, shutdown_result,
                   teardown_calls, elapsed, run_result>>

\* SvcJoin not waiting for the worker thread
SvcJoinDetached ==
    /\ svc_pc = "join"
    /\ svc_pc' = "stopped"
    /\ UNCHANGED <<harness_vars, status, handler_result, stops, run_pc, shutdown_rx,
                   config_override, config, loaded, ip_addr, hostname_fqdn, registered,
                   chan, ctrlc, observed, consumed, sd_pc, shutdown_result,
                   teardown_calls, elapsed, run_result>>

\* service_thread.join(): all three arms only log
SvcJoin ==
    /\ svc_pc = "join"
    /\ run_pc = "returned"
    /\ svc_pc' = "stopped"
    /\ UNCHANGED <<harness_vars, status, handler_result, stops, run_pc, shutdown_rx,
                   config_override, config, loaded, ip_addr, hostname_fqdn, registered,
                   chan, ctrlc, observed, consumed, sd_pc, shutdown_result,
                   teardown_calls, elapsed, run_result>>

\* set_service_status(Stopped)?
SvcStopped ==
    /\ svc_pc = "stopped"
    /\ \E ok \in BOOLEAN :
         /\ status' = Append(status, Report("Stopped", ok))
         /\ svc_pc' = IF ok THEN "returned_ok" ELSE "returned_err"
    /\ UNCHANGED <<harness_vars, handler_result, stops, run_pc, shutdown_rx,
                   config_override, config, loaded, ip_addr, hostname_fqdn, registered,
                   chan, ctrlc, observed, consumed, sd_pc, shutdown_result,
                   teardown_calls, elapsed, run_result>>

\* what shutdown_tx.send(()).unwrap() does to the handler
SendUnwrap(ch) == IF ch.rx = "alive" THEN "NoError" ELSE "panic"

\* the handler closure, ServiceControl::Stop; the service manager delivers
\* Stop only while the reported state accepts it
ControlStop ==
    /\ CurrentState(status) = "Running"
    /\ stops < MaxStops
    /\ stops' = stops + 1
    /\ chan' = IF chan.rx = "alive" THEN [chan EXCEPT !.queue = @ + 1] ELSE chan
    /\ handler_result' = SendUnwrap(chan)
    /\ UNCHANGED <<harness_vars, svc_pc, status, run_pc, shutdown_rx, config_override,
                   config, loaded, ip_addr, hostname_fqdn, registered, ctrlc, observed,
                   consumed, sd_pc, shutdown_result, teardown_calls, elapsed, run_result>>

\* the handler closure, ServiceControl::Interrogate and the catch-all arm
ControlOther ==
    /\ CurrentState(status) \in {"StartPending", "Running"}
    /\ \E control \in {"Interrogate", "Pause"} :
         handler_result' = IF control = "Interrogate" THEN "NoError" ELSE "NotImplemented"
    /\ UNCHANGED <<harness_vars, svc_pc, status, stops, run_pc, shutdown_rx,
                   config_override, config, loaded, ip_addr, hostname_fqdn, registered,
                   chan, ctrlc, observed, consumed, sd_pc, shutdown_result,
                   teardown_calls, elapsed, run_result>>

\* ------------------------------------------------------------------------
\* The callers of run outside the service adapter
\* ------------------------------------------------------------------------
\* shutdown_tx.send(()) by the holder of the sending end (lib.rs test)
ExternalSend ==
    /\ svc_pc = "none"
    /\ chan.senders > 0
    /\ stops < MaxStops
    /\ stops' = stops + 1
    /\ chan' = IF chan.rx = "alive" THEN [chan EXCEPT !.queue = @ + 1] ELSE chan
    /\ UNCHANGED <<harness_vars, svc_pc, status, handler_result, run_pc, shutdown_rx,
                   config_override, config, loaded, ip_addr, hostname_fqdn, registered,
                   ctrlc, observed, consumed, sd_pc, shutdown_result, teardown_calls,
                   elapsed, run_result>>

\* the holder of the sending end drops it
ExternalDropSender ==
    /\ svc_pc = "none"
    /\ chan.senders > 0
    /\ chan' = [chan EXCEPT !.senders = 0]
    /\ UNCHANGED <<harness_vars, svc_pc, status, handler_result, stops, run_pc,
                   shutdown_rx, config_override, config, loaded, ip_addr, hostname_fqdn,
                   registered, ctrlc, observed, consumed, sd_pc, shutdown_result,
                   teardown_calls, elapsed, run_result>>

\* the closure given to ctrlc::set_handler: tx.send(()).unwrap()
CtrlC ==
    /\ ctrlc.installed
    /\ stops < MaxStops
    /\ stops' = stops + 1
    /\ ctrlc' = IF ctrlc.rx = "alive" THEN [ctrlc EXCEPT !.queue = @ + 1] ELSE ctrlc
    /\ handler_result' = SendUnwrap(ctrlc)
    /\ UNCHANGED <<harness_vars, svc_pc, status, run_pc, shutdown_rx, config_override,
                   config, loaded, ip_addr, hostname_fqdn, registered, chan, observed,
                   consumed, sd_pc, shutdown_result, teardown_calls, elapsed, run_result>>

\* ------------------------------------------------------------------------
\* Specifications
\* ------------------------------------------------------------------------
Next ==
    \/ RunResolveConfig \/ RunSelectAddress \/ RunNewDaemon \/ RunServiceInfo
    \/ RunRegister \/ RunWaitExternal \/ RunSetHandler \/ RunWaitCtrlc
    \/ GracefulSpawn \/ Poll \/ Sleep
    \/ TeardownCall \/ TeardownStore \/ TeardownPanic
    \/ SvcRegisterHandler \/ SvcStartPending \/ SvcSpawn \/ SvcRunning \/ SvcJoin
    \/ SvcStopped \/ ControlStop \/ ControlOther
    \/ ExternalSend \/ ExternalDropSender \/ CtrlC

Spec == Init /\ [][Next]_vars

\* the controller thread is scheduled: once in graceful_shutdown it keeps
\* polling and sleeping; nothing is assumed about the teardown thread
FairSpec == Spec /\ WF_vars(GracefulSpawn) /\ WF_vars(Poll) /\ WF_vars(Sleep)

\* ---- validate applied to a range of configurations -----------------------
ShareOk == ShareConfig(Public, PublicPath, "Public shared folder")
ShareNoName == ShareConfig(<<>>, PublicPath, "")
ShareNoPath == ShareConfig(Public, <<>>, "")
ShareEmpty == ShareConfig(<<>>, <<>>, "")
MaxPort == 65535

ValidateInputs ==
    [service_name  : {SmbService, <<>>, LocalDot, SubSeq(SmbService, 1, Len(SmbService) - 1)},
     instance_name : {<<>>, WindowsShare, Rep("a", MaxInstanceLen), Rep("a", MaxInstanceLen + 1),
                      Rep("U+00E9", 32)},
     port          : {0, 1, DefaultPort, MaxPort},
     hostname      : {<<>>, Host, WindowsPcLocal, <<"-", "a">>, <<"a", "-">>, <<"a", "-", "b">>,
                      <<"U+00E9">>, <<"a", "_">>},
     workgroup     : {"WORKGROUP"},
     description   : {""},
     shares        : {<<>>, <<ShareOk>>, <<ShareNoName>>, <<ShareNoPath>>, <<ShareEmpty>>,
                      <<ShareOk, ShareNoPath>>, <<ShareOk, ShareNoName>>, <<ShareOk, ShareOk>>},
     bind_address  : {None}]

InitValidate ==
    /\ vcfg \in ValidateInputs
    /\ vres = None
    /\ InitIdleFile
    /\ InitIdleAdvert
    /\ InitCommon
    /\ svc_pc = "none"
    /\ run_pc = "not_started"
    /\ shutdown_rx = "None"
    /\ config_override = None
    /\ chan = NoChannel

\* config.validate() is called
ValidateStep ==
    /\ vres = None
    /\ vres' = Some(Validate(vcfg))
    /\ UNCHANGED <<vcfg, file_vars, advert_vars, lifecycle_vars>>

SpecValidate == InitValidate /\ [][ValidateStep]_vars

\* ------------------------------------------------------------------------
\* The controller's state (spec 4.3), read off the position in run
\* ------------------------------------------------------------------------
State ==
    CASE run_pc = "not_started" -> "NotStarted"
      [] run_pc \in {"config", "address", "daemon", "service_info", "register"} -> "Initializing"
      [] run_pc \in {"wait", "wait_ctrlc"} -> "Registered"
      [] run_pc \in {"graceful_shutdown", "poll", "sleep"} -> "ShuttingDown"
      [] run_pc = "returned" /\ IsOk(Unwrap(run_result)) -> "Stopped"
      [] run_pc = "returned" /\ ~IsOk(Unwrap(run_result)) -> "Failed"

Returned == run_pc = "returned"
ReturnedOk == Returned /\ run_result = Some(Ok)
LoadFailed == IsSome(loaded) /\ ~IsOk(Unwrap(loaded))

\* ------------------------------------------------------------------------
\* Properties
\* ------------------------------------------------------------------------

\* C1: once graceful_shutdown has spawned the teardown thread, run returns
\* whatever the teardown thread does: the loop never goes to sleep after a
\* poll that saw the bound exceeded, so it returns at the first poll after
\* the bound, and under fair scheduling of the controller it does return.
C1_BoundedShutdown ==
    /\ [](run_pc = "sleep" => elapsed <= TimeoutTicks)
    /\ [](run_pc = "poll" => elapsed <= TimeoutTicks + 1 + MaxSlack)
    /\ (run_pc \in {"poll", "sleep"}) ~> Returned

\* run has returned although daemon.shutdown() never completed
C1_Witness ==
    /\ ReturnedOk
    /\ sd_pc \in {"spawned", "in_shutdown"}
    /\ elapsed > TimeoutTicks

\* C2: once registration has succeeded and a termination event has been
\* observed, run returns Ok(()) whatever the teardown did.
C2_ShutdownNeverFails ==
    (Returned /\ IsSome(registered) /\ observed >= 1) => run_result = Some(Ok)

\* run has returned after the teardown reported an error
C2_Witness ==
    /\ ReturnedOk
    /\ observed = 1
    /\ sd_pc = "finished"
    /\ IsSome(shutdown_result)
    /\ ~IsOk(Unwrap(shutdown_result))

\* C3: the controller only moves Initializing -> Registered -> ShuttingDown
\* -> Stopped or Initializing -> Failed, so an error return never follows a
\* successful registration.
C3_Transitions ==
    [][State' # State =>
         <<State, State'>> \in {<<"NotStarted", "Initializing">>,
                                <<"Initializing", "Registered">>,
                                <<"Registered", "ShuttingDown">>,
                                <<"ShuttingDown", "Stopped">>,
                                <<"Initializing", "Failed">>}]_vars

\* C4: the configuration of a registered advertisement passes validate.
C4_RegisteredConfigValid ==
    IsSome(registered) => IsOk(Validate(Unwrap(registered).config))

\* C5: in the service, a second stop control after a first one that was
\* delivered is a no-op: the handler returns NoError and does not panic,
\* whatever the controller has done with the first value.
C5_SecondStopIsNoOp ==
    [][(svc_pc # "none" /\ stops = 1 /\ chan.queue + consumed = 1 /\ stops' = 2)
          => handler_result' = "NoError"]_vars

\* C6: termination is single-shot: at most one recv() ever returns and a
\* run that returns Ok has observed exactly one event; after that the
\* controller holds no receiver, takes no further value and starts no second
\* teardown, whatever is sent.
C6_SingleShot ==
    /\ [](/\ observed <= 1
          /\ consumed <= observed
          /\ teardown_calls <= 1
          /\ (ReturnedOk => observed = 1)
          /\ (observed = 1 => chan.rx # "alive" /\ ctrlc.rx # "alive"))
    /\ [][observed = 1 =>
            /\ observed' = 1
            /\ consumed' = consumed
            /\ (sd_pc # "none" => sd_pc' # "spawned" \/ sd_pc = "spawned")]_vars

\* a value was sent after the controller had taken the first one: two sends,
\* one consumed, none queued
C6_Witness ==
    /\ ReturnedOk
    /\ svc_pc = "none"
    /\ shutdown_rx = "Some"
    /\ stops = 2
    /\ consumed = 1
    /\ chan.queue = 0

\* C7: once the control handler is registered, run_service never ends
\* without having reported Stopped.
C7_AlwaysReportsStopped ==
    (svc_pc \in {"returned_ok", "returned_err"} /\ status # <<>>) =>
        \E i \in 1..Len(status) : status[i].state = "Stopped"

\* C8: a failed load never fails the run: default() is substituted and run
\* goes on to address selection.
C8_LoadFailureRecovered ==
    LoadFailed =>
        /\ config = Some(Default)
        /\ run_pc # "config"
        /\ (Returned => run_result # Some(Unwrap(loaded)))

\* the file failed validation and the advertisement was registered anyway
C8_Witness ==
    /\ LoadFailed
    /\ Unwrap(loaded).kind = "ConfigValidation"
    /\ IsSome(registered)

\* C9: an override that fails validation is never registered and makes run
\* return an error.
C9_InvalidOverrideRejected ==
    (IsSome(config_override) /\ ~IsOk(Validate(Unwrap(config_override)))) =>
        /\ ~IsSome(registered)
        /\ (Returned => ~IsOk(Unwrap(run_result)))

\* ---- C10: the seven rules as the specification words them ----------------
HostnameChars == AsciiLetters \cup AsciiDigits \cup {"-"}

RECURSIVE FirstBadShare(_, _)
FirstBadShare(shares, i) ==
    IF i > Len(shares) THEN Ok
    ELSE IF shares[i].name = <<>>
         THEN ErrAt("ConfigValidation", "share: name cannot be empty", i - 1)
    ELSE IF shares[i].path = <<>>
         THEN ErrAt("ConfigValidation", "share: path cannot be empty", i - 1)
    ELSE FirstBadShare(shares, i + 1)

RuleResult(c) ==
    IF ~EndsWith(c.service_name, LocalDot)
        THEN Err("ConfigValidation", "service_name must end with '.local.'")
    ELSE IF Len(c.instance_name) = 0
        THEN Err("ConfigValidation", "instance_name cannot be empty")
    ELSE IF Len(c.instance_name) > 63
        THEN Err("ConfigValidation", "instance_name exceeds 63 characters")
    ELSE IF c.port = 0
        THEN Err("ConfigValidation", "port cannot be 0")
    ELSE IF Len(c.hostname) = 0
        THEN Err("ConfigValidation", "hostname cannot be empty")
    ELSE IF \/ \E i \in 1..Len(c.hostname) : c.hostname[i] \notin HostnameChars
            \/ c.hostname[1] = "-"
            \/ c.hostname[Len(c.hostname)] = "-"
        THEN Err("ConfigValidation",
                 "hostname must contain only alphanumeric characters and hyphens")
    ELSE IF Len(c.shares) = 0
        THEN Err("ConfigValidation", "at least one share must be configured")
    ELSE FirstBadShare(c.shares, 1)

\* C10: validate returns Ok exactly when the seven rules hold, and otherwise
\* the error of the first failing rule (with the index of the first failing
\* share).
C10_ValidateMatchesRules ==
    IsSome(vres) => Unwrap(vres) = RuleResult(vcfg)

\* ------------------------------------------------------------------------
\* config.rs: save_to_file, and save followed by load
\* ------------------------------------------------------------------------
\* save_to_file validating after the write instead of before it
SaveToFileWritesFirst(c, f, write) ==
    IF write = "ok"
    THEN [result |-> Validate(c), file |-> [kind |-> "object", fields |-> Serialize(c)]]
    ELSE [result |-> Err("Io", write),
          file |-> IF write = "write failed" THEN [kind |-> "garbage"] ELSE f]

\* ServiceConfig::save_to_file on a path holding f; write is what fs::write
\* does: it succeeds, fails before touching the file, or fails after
\* truncating it
SaveToFile(c, f, write) ==
    IF ~IsOk(Validate(c)) THEN [result |-> Validate(c), file |-> f]
    ELSE IF write = "ok"
         THEN [result |-> Ok, file |-> [kind |-> "object", fields |-> Serialize(c)]]
    ELSE [result |-> Err("Io", write),
          file |-> IF write = "write failed" THEN [kind |-> "garbage"] ELSE f]

WriteOutcomes == {"ok", "open failed", "write failed"}

DocsShare == ShareConfig(<<"D", "o", "c", "s">>, <<"D", ":", "\\", "D", "o", "c", "s">>, "Documents")

FileInputs ==
    [service_name  : {SmbService},
     instance_name : {WindowsShare},
     port          : {0, DefaultPort},
     hostname      : {Host, WindowsPcLocal, <<"U+00E9">>},
     workgroup     : {"WORKGROUP"},
     description   : {"Windows SMB Share via mDNS"},
     shares        : {<<>>, <<ShareOk>>, <<ShareNoPath>>, <<ShareOk, DocsShare>>,
                      <<DocsShare, ShareOk>>},
     bind_address  : {None, Some(BindAddr), Some(<<>>)}]

DiskStates ==
    {[kind |-> "missing"], [kind |-> "garbage"],
     [kind |-> "object", fields |-> Serialize(HostConfig)]}

InitFile ==
    /\ vcfg \in FileInputs
    /\ vres = None
    /\ disk \in DiskStates
    /\ saved = None
    /\ reloaded = None
    /\ InitIdleAdvert
    /\ InitCommon
    /\ svc_pc = "none"
    /\ run_pc = "not_started"
    /\ shutdown_rx = "None"
    /\ config_override = None
    /\ chan = NoChannel

\* vcfg.save_to_file(path)
SaveStep ==
    /\ saved = None
    /\ \E write \in WriteOutcomes :
         LET r == SaveToFile(vcfg, disk, write) IN
           /\ saved' = Some(r.result)
           /\ disk' = r.file
    /\ UNCHANGED <<vcfg, vres, reloaded, advert_vars, lifecycle_vars>>

\* ServiceConfig::from_file(path) after the save
LoadStep ==
    /\ IsSome(saved)
    /\ reloaded = None
    /\ reloaded' = Some(FromFile(disk))
    /\ UNCHANGED <<vcfg, vres, disk, saved, advert_vars, lifecycle_vars>>

NextFile == SaveStep \/ LoadStep

SpecFile == InitFile /\ [][NextFile]_vars

\* C11: a valid configuration that was saved loads back equal in every
\* field (same shares in the same order, an absent bind address absent);
\* saving a valid configuration fails only when the write itself fails.
C11_RoundTrip ==
    /\ (saved = Some(Ok) /\ IsSome(reloaded)) => reloaded = Some(OkOf(vcfg))
    /\ (IsSome(saved) /\ IsOk(Validate(vcfg)) /\ ~IsOk(Unwrap(saved)))
          => Unwrap(saved).kind = "Io"

\* two shares and no bind address went through the file and came back
C11_Witness ==
    /\ saved = Some(Ok)
    /\ reloaded = Some(OkOf(vcfg))
    /\ Len(vcfg.shares) = 2
    /\ vcfg.bind_address = None

\* C20: save_to_file of a configuration that fails validation returns the
\* validation error and leaves the file as it was; the file changes only
\* when the configuration is valid.
C20_SaveValidatesFirst ==
    /\ [][(saved = None /\ saved' # None /\ ~IsOk(Validate(vcfg)))
             => (disk' = disk /\ saved' = Some(Validate(vcfg)))]_vars
    /\ [][disk' # disk => IsOk(Validate(vcfg))]_vars

\* an invalid configuration was refused and the file that existed is intact
C20_Witness ==
    /\ IsSome(saved)
    /\ ~IsOk(Validate(vcfg))
    /\ Unwrap(saved).kind = "ConfigValidation"
    /\ disk = [kind |-> "object", fields |-> Serialize(HostConfig)]

\* ------------------------------------------------------------------------
\* mdns_service.rs: the ip_addr and hostname_fqdn expressions on their own
\* ------------------------------------------------------------------------
MaxAdapters == 2     \* adapters returned by get_adapters()

HostLocal == <<"h", "o", "s", "t", ".", "l", "o", "c", "a", "l">>
HostLocalDot == <<"h", "o", "s", "t", ".", "l", "o", "c", "a", "l", ".">>
WiFi == <<"W", "i", "-", "F", "i">>
TapVpn == <<"T", "A", "P", " ", "V", "P", "N">>
LowerVirtual == <<"v", "i", "r", "t", "u", "a", "l", " ", "n", "i", "c">>
VirtualBox == <<"V", "i", "r", "t", "u", "a", "l", "B", "o", "x">>

AdapterPool ==
    {Adapter(HyperVSwitch, <<V4(10, 0, 0, 1)>>),
     Adapter(Ethernet, <<V4(8, 8, 8, 8), V4(192, 168, 1, 50)>>),
     Adapter(Ethernet, <<>>),
     Adapter(WiFi, <<V6, V4(172, 16, 0, 9)>>),
     Adapter(WiFi, <<V4(172, 32, 0, 1), V4(192, 169, 0, 1), V4(11, 0, 0, 1)>>),
     Adapter(TapVpn, <<V4(10, 8, 0, 2)>>),
     Adapter(Bluetooth, <<V4(192, 168, 44, 1)>>),
     Adapter(LowerVirtual, <<V4(172, 31, 255, 255)>>),
     Adapter(VirtualBox, <<V4(192, 168, 56, 1)>>)}

AdapterInputs ==
    {Err("IpConfig", "get_adapters failed")}
       \cup {OkOf(l) : l \in UNION {[1..k -> AdapterPool] : k \in 0..MaxAdapters}}

AdvertInputs ==
    [service_name  : {SmbService},
     instance_name : {WindowsShare},
     port          : {DefaultPort},
     hostname      : {Host, HostLocal, HostLocalDot, WindowsPcLocal, <<>>, Local,
                      HostLocal \o Local},
     workgroup     : {"WORKGROUP"},
     description   : {"Windows SMB Share via mDNS"},
     shares        : {<<ShareOk>>},
     bind_address  : {None, Some(BindAddr), Some(<<>>)}]

InitAdvert ==
    /\ vcfg \in AdvertInputs
    /\ vres = None
    /\ InitIdleFile
    /\ adapter_query \in AdapterInputs
    /\ socket_probe \in ProbeStates
    /\ selected = None
    /\ normalized = None
    /\ InitCommon
    /\ svc_pc = "none"
    /\ run_pc = "not_started"
    /\ shutdown_rx = "None"
    /\ config_override = None
    /\ chan = NoChannel

\* the `let ip_addr = ...` expression is evaluated
SelectStep ==
    /\ selected = None
    /\ selected' = Some(SelectAddress(vcfg, adapter_query, socket_probe))
    /\ UNCHANGED <<vcfg, vres, file_vars, adapter_query, socket_probe, normalized,
                   lifecycle_vars>>

\* the `let hostname_fqdn = ...` expression is evaluated
NormalizeStep ==
    /\ normalized = None
    /\ normalized' = Some(NormalizeHostname(vcfg.hostname))
    /\ UNCHANGED <<vcfg, vres, file_vars, adapter_query, socket_probe, selected,
                   lifecycle_vars>>

NextAdvert == SelectStep \/ NormalizeStep

SpecAdvert == InitAdvert /\ [][NextAdvert]_vars

\* C12: with a bind address configured the advertised address is that
\* string, whatever get_adapters() and the socket would have done.
C12_BindAddressVerbatim ==
    (IsSome(selected) /\ IsSome(vcfg.bind_address))
        => selected = Some(OkOf(Unwrap(vcfg.bind_address)))

\* the bind address was returned although adapter enumeration fails
C12_Witness ==
    /\ selected = Some(OkOf(BindAddr))
    /\ ~IsOk(adapter_query)

\* ---- C13: the selection as the specification words it ---------------------
RECURSIVE Pow2(_)
Pow2(n) == IF n = 0 THEN 1 ELSE 2 * Pow2(n - 1)

\* the first sixteen bits of an address; the three blocks have prefixes of
\* at most sixteen bits
High16(o) == o[1] * 256 + o[2]

\* address o lies in the block base/prefix (prefix <= 16)
InBlock(o, base, prefix) ==
    /\ High16(o) >= High16(base)
    /\ High16(o) < High16(base) + Pow2(16 - prefix)

PrivateV4(ip) ==
    /\ ip.v = 4
    /\ \/ InBlock(ip.octets, <<10, 0, 0, 0>>, 8)
       \/ InBlock(ip.octets, <<172, 16, 0, 0>>, 12)
       \/ InBlock(ip.octets, <<192, 168, 0, 0>>, 16)

Marked(a) ==
    \E marker \in {Virtual, VPN, HyperV, Bluetooth} : Contains(a.description, marker)

RECURSIVE Candidates(_)
\* the addresses of the adapters that are not skipped, in enumeration order
Candidates(list) ==
    IF list = <<>> THEN <<>>
    ELSE (IF Marked(Head(list)) THEN <<>> ELSE Head(list).ip_addresses)
            \o Candidates(Tail(list))

FirstPrivateCandidate(list) ==
    LET c == Candidates(list)
        hits == {k \in 1..Len(c) : PrivateV4(c[k])}
    IN IF hits = {} THEN None
       ELSE Some(c[CHOOSE k \in hits : \A j \in hits : k <= j])

SpecExampleAdapters ==
    <<Adapter(HyperVSwitch, <<V4(10, 0, 0, 1)>>),
      Adapter(Ethernet, <<V4(8, 8, 8, 8), V4(192, 168, 1, 50)>>)>>

\* C13: without a bind address the selected address is the first private
\* IPv4 address of the adapters that are not skipped, in order; the socket
\* probe decides only when there is none; the example of the specification
\* yields 192.168.1.50.
C13_FirstPrivateWins ==
    (IsSome(selected) /\ ~IsSome(vcfg.bind_address) /\ IsOk(adapter_query)) =>
        /\ LET first == FirstPrivateCandidate(adapter_query.val) IN
             IF IsSome(first)
             THEN selected = Some(OkOf(Ipv4ToString(Unwrap(first).octets)))
             ELSE selected = Some(SocketProbe(socket_probe))
        /\ adapter_query.val = SpecExampleAdapters =>
             selected = Some(OkOf(<<"1", "9", "2", ".", "1", "6", "8", ".", "1", ".", "5", "0">>))

\* the example of the specification was evaluated
C13_Witness ==
    /\ IsSome(selected)
    /\ ~IsSome(vcfg.bind_address)
    /\ adapter_query = OkOf(SpecExampleAdapters)

\* C14: "host", "host.local" and "host.local." all normalize to
\* "host.local."; the result always ends with ".local." and normalizing it
\* again changes nothing.
C14_NormalizeHostname ==
    IsSome(normalized) =>
        /\ EndsWith(Unwrap(normalized), LocalDot)
        /\ NormalizeHostname(Unwrap(normalized)) = Unwrap(normalized)
        /\ vcfg.hostname \in {Host, HostLocal, HostLocalDot} =>
             Unwrap(normalized) = HostLocalDot

\* "host.local" was normalized to "host.local."
C14_Witness ==
    /\ vcfg.hostname = HostLocal
    /\ normalized = Some(HostLocalDot)

\* ------------------------------------------------------------------------
\* Properties of the lifecycle, continued
\* ------------------------------------------------------------------------

\* C15: the wait begins only after registration has succeeded, and a value
\* sent while the controller is Initializing changes nothing in the
\* controller: it is taken only in the Registered state, and taking it leads
\* to ShuttingDown.
C15_RegistrationBeforeWait ==
    /\ [](State \in {"Registered", "ShuttingDown", "Stopped"} => IsSome(registered))
    /\ [](observed >= 1 => IsSome(registered))
    /\ [][(State = "Initializing" /\ stops' > stops)
             => (run_pc' = run_pc /\ registered' = registered /\ observed' = observed)]_vars
    /\ [][observed' > observed => (State = "Registered" /\ State' = "ShuttingDown")]_vars

\* a value is queued while run is about to register, and run goes on
C15_Witness ==
    /\ run_pc = "register"
    /\ chan.queue >= 1
    /\ ~IsSome(registered)
    /\ observed = 0

StatusStates == [i \in 1..Len(status) |-> status[i].state]

IsPrefix(s, t) == Len(s) <= Len(t) /\ s = SubSeq(t, 1, Len(s))

\* C16: the adapter reports StartPending, Running, Stopped in this order and
\* each at most once, nothing after Stopped; StartPending before the worker
\* runs, Running only after it was spawned, Stopped only after run has
\* returned or panicked.
C16_StatusOrder ==
    /\ IsPrefix(StatusStates, <<"StartPending", "Running", "Stopped">>)
    /\ (svc_pc # "none" /\ run_pc # "not_started")
          => (Len(status) >= 1 /\ status[1] = Report("StartPending", TRUE))
    /\ Len(status) >= 2 => run_pc # "not_started"
    /\ Len(status) >= 3 => Returned

\* all three states were reported, Stopped after run had returned
C16_Witness ==
    /\ status = <<Report("StartPending", TRUE), Report("Running", TRUE),
                  Report("Stopped", TRUE)>>
    /\ ReturnedOk

\* C17: a run given a channel never installs the Ctrl-C handler and waits on
\* that channel; a run given none has no such channel and waits on the
\* handler's channel.
C17_OneWaitingStrategy ==
    /\ shutdown_rx = "Some" =>
          /\ ctrlc = [installed |-> FALSE, queue |-> 0, rx |-> "none"]
          /\ observed >= 1 => chan.rx = "dropped"
    /\ shutdown_rx = "None" =>
          /\ chan = NoChannel
          /\ observed >= 1 => (ctrlc.installed /\ ctrlc.rx = "dropped")

\* a run without a channel ended through the Ctrl-C handler
C17_Witness ==
    /\ shutdown_rx = "None"
    /\ ctrlc.installed
    /\ consumed = 1
    /\ ReturnedOk

\* C18: with every sender gone a waiting controller can leave the wait, and
\* a wait ended by closure is followed by the graceful shutdown and success
\* like one ended by a value.
C18_ClosureTerminates ==
    /\ (run_pc = "wait" /\ shutdown_rx = "Some" /\ chan.senders = 0)
          => ENABLED RunWaitExternal
    /\ (observed = 1 /\ consumed = 0)
          => (IsSome(registered) /\ State \in {"ShuttingDown", "Stopped"})

\* run returned Ok although nothing was ever sent
C18_Witness ==
    /\ ReturnedOk
    /\ shutdown_rx = "Some"
    /\ stops = 0
    /\ chan.senders = 0
    /\ observed = 1
    /\ consumed = 0

\* C19: daemon.shutdown() is invoked at most once, by the teardown thread,
\* after registration and after a termination event; never on a failed run;
\* and the controller does nothing with the daemon once the thread exists.
C19_TeardownOnce ==
    /\ [](teardown_calls <= 1)
    /\ [](teardown_calls >= 1 =>
            (IsSome(registered) /\ observed >= 1 /\ sd_pc \in {"in_shutdown", "finished"}))
    /\ [](State = "Failed" => (teardown_calls = 0 /\ sd_pc = "none"))
    /\ [][teardown_calls' # teardown_calls => (sd_pc = "spawned" /\ run_pc' = run_pc)]_vars
    /\ [][sd_pc # "none" => registered' = registered]_vars

\* the teardown was invoked once and run returned
C19_Witness ==
    /\ teardown_calls = 1
    /\ sd_pc = "finished"
    /\ ReturnedOk

\* ------------------------------------------------------------------------
\* Properties of the default configuration
\* ------------------------------------------------------------------------

\* C21: default() passes validate, so save_to_file of the default
\* configuration fails only when the write itself fails, and a file holding
\* the serialized default loads back as the default.
C21_DefaultIsValid ==
    (vcfg = Default /\ IsSome(saved)) =>
        /\ IsOk(Validate(vcfg))
        /\ (IsOk(Unwrap(saved)) \/ Unwrap(saved).kind = "Io")
        /\ FromFile([kind |-> "object", fields |-> Serialize(Default)]) = OkOf(Default)

====
